---- MODULE Spec2Model ----
(***************************************************************************)
(* A model of the support-chat Lambda function                             *)
(* (ShreyashMishra_23BCE10777_Smart_Ai_Chat_bot_lambda_function.py):       *)
(* the FAQ cache (quick_faq_lookup, save_new_faq, init_seed_faqs), the     *)
(* conversation store (save_message, get_recent_history), the model        *)
(* adapter (call_bedrock_model) and the request handler (lambda_handler).  *)
(*                                                                         *)
(* Text is modelled by TLA+ strings; Python's str operations (lower,       *)
(* strip, the substring test `in`) are computed character by character.    *)
(* A JSON value is a tagged record: t is its Python type after json.loads. *)
(***************************************************************************)
EXTENDS Integers, Sequences, FiniteSets, TLC

(***************************************************************************)
(* Python str operations                                                   *)
(***************************************************************************)

\* s[i:j] of Python for 1-based inclusive bounds; empty when i > j.
Slice(s, i, j) == IF i > j THEN "" ELSE SubSeq(s, i, j)

\* Python's `t in s` for two strings: t occurs in s as a contiguous substring.
Contains(s, t) ==
    \E i \in 1..(Len(s) - Len(t) + 1) : Slice(s, i, i + Len(t) - 1) = t

UpperChars == "ABCDEFGHIJKLMNOPQRSTUVWXYZ"
LowerChars == "abcdefghijklmnopqrstuvwxyz"

\* str.lower() on one character.
LowerChar(c) ==
    IF \E k \in 1..26 : Slice(UpperChars, k, k) = c
    THEN LET k == CHOOSE k \in 1..26 : Slice(UpperChars, k, k) = c
         IN  Slice(LowerChars, k, k)
    ELSE c

RECURSIVE Lower(_)
\* str.lower()
Lower(s) ==
    IF s = "" THEN ""
    ELSE LowerChar(Slice(s, 1, 1)) \o Lower(Slice(s, 2, Len(s)))

IsSpace(c) == c \in {" ", "\n", "\t", "\r"}

RECURSIVE LStrip(_)
LStrip(s) ==
    IF s # "" /\ IsSpace(Slice(s, 1, 1)) THEN LStrip(Slice(s, 2, Len(s))) ELSE s

RECURSIVE RStrip(_)
RStrip(s) ==
    IF s # "" /\ IsSpace(Slice(s, Len(s), Len(s)))
    THEN RStrip(Slice(s, 1, Len(s) - 1)) ELSE s

\* str.strip()
Strip(s) == RStrip(LStrip(s))

(***************************************************************************)
(* JSON values as json.loads returns them                                  *)
(***************************************************************************)

JStr(s)      == [t |-> "str",  s |-> s,  items |-> <<>>, f |-> <<>>]
JNum         == [t |-> "num",  s |-> "", items |-> <<>>, f |-> <<>>]
JNull        == [t |-> "null", s |-> "", items |-> <<>>, f |-> <<>>]
JList(items) == [t |-> "list", s |-> "", items |-> items, f |-> <<>>]
\* f is a function from the object's keys to their values.
JDict(f)     == [t |-> "dict", s |-> "", items |-> <<>>, f |-> f]
EmptyDict    == JDict(<<>>)

\* The outcome of a piece of Python code: a returned string, a raised
\* exception (v names its class), or falling through to the next statement.
Return(s) == [k |-> "return", v |-> s]
Raise(e)  == [k |-> "raise",  v |-> e]
Fall      == [k |-> "fall",   v |-> ""]

\* Whether `key in v` can be evaluated: int and None are not iterable.
InDefined(v) == v.t \in {"dict", "str", "list"}

\* `key in v` for a str key, where it is defined: a dict's key, a substring of
\* a str, an element of a list.
PyIn(key, v) ==
    CASE v.t = "dict" -> key \in DOMAIN v.f
      [] v.t = "str"  -> Contains(v.s, key)
      [] v.t = "list" -> \E n \in 1..Len(v.items) : v.items[n] = JStr(key)
      [] OTHER        -> FALSE

\* v[key] for a str key is defined for a dict holding the key. (A str or a
\* list raises TypeError, a dict without the key KeyError.)
GetItemDefined(v, key) == v.t = "dict" /\ key \in DOMAIN v.f

\* x.strip(): only a str has the method.
StripOf(x) == IF x.t = "str" THEN Return(Strip(x.s)) ELSE Raise("AttributeError")

(***************************************************************************)
(* Model adapter: call_bedrock_model                                       *)
(***************************************************************************)

FormatFallback ==
    "I encountered an unexpected response format. Please try again or contact support."
ConfigFallback ==
    "The AI model configuration needs adjustment. Please contact support."
BusyFallback ==
    "The service is temporarily busy. Please try again in a moment."
UnavailableFallback ==
    "The requested model is not available. Please contact support."
UnexpectedFallback ==
    "An unexpected error occurred. Please contact support."
GenericFallback(error_msg) ==
    "AI service error: " \o error_msg \o ". Please try again or contact support."

\* The branch of the if/elif chain on BEDROCK_MODEL_ID.lower() that is
\* taken, for the request payload and again for the response.
Family(model_id) ==
    LET id == Lower(model_id)
    IN  IF Contains(id, "nova") THEN "nova"
        ELSE IF Contains(id, "llama") THEN "llama"
        ELSE IF Contains(id, "mistral") THEN "mistral"
        ELSE "default"

\* for content_block in blocks: if isinstance(content_block, dict) and
\* "text" in content_block: return content_block["text"].strip()
FirstTextBlock(blocks) ==
    LET hits == {n \in 1..Len(blocks) :
                    blocks[n].t = "dict" /\ "text" \in DOMAIN blocks[n].f}
    IN  IF hits = {} THEN Fall
        ELSE LET n == CHOOSE n \in hits : \A m \in hits : n <= m
             IN  StripOf(blocks[n].f["text"])

\* if "content" in v and isinstance(v["content"], list): for ... return
ContentOf(v) ==
    IF ~InDefined(v) THEN Raise("TypeError")
    ELSE IF ~PyIn("content", v) THEN Fall
    ELSE IF ~GetItemDefined(v, "content") THEN Raise("TypeError")
    ELSE IF v.f["content"].t # "list" THEN Fall
    ELSE FirstTextBlock(v.f["content"].items)

\* Lines 336-347. body_json.get exists only on a dict.
ExtractNova(body_json) ==
    IF body_json.t # "dict" THEN Raise("AttributeError")
    ELSE
      LET output == IF "output" \in DOMAIN body_json.f
                    THEN body_json.f["output"] ELSE EmptyDict
          inner ==
            IF ~InDefined(output) THEN Raise("TypeError")
            ELSE IF ~PyIn("message", output) THEN Fall
            ELSE IF ~GetItemDefined(output, "message") THEN Raise("TypeError")
            ELSE ContentOf(output.f["message"])
      IN  IF inner.k # "fall" THEN inner ELSE ContentOf(body_json)

\* Lines 350-351.
ExtractLlama(body_json) ==
    IF ~InDefined(body_json) THEN Raise("TypeError")
    ELSE IF ~PyIn("generation", body_json) THEN Fall
    ELSE IF ~GetItemDefined(body_json, "generation") THEN Raise("TypeError")
    ELSE IF body_json.f["generation"].t # "str" THEN Fall
    ELSE StripOf(body_json.f["generation"])

\* Lines 354-356 (list_key "outputs", text_key "text") and 359-361
\* (list_key "results", text_key "outputText").
ExtractFirstOf(body_json, list_key, text_key) ==
    IF ~InDefined(body_json) THEN Raise("TypeError")
    ELSE IF ~PyIn(list_key, body_json) THEN Fall
    ELSE IF ~GetItemDefined(body_json, list_key) THEN Raise("TypeError")
    ELSE IF body_json.f[list_key].t # "list" THEN Fall
    ELSE LET items == body_json.f[list_key].items
         IN  IF Len(items) = 0 THEN Fall
             ELSE IF ~InDefined(items[1]) THEN Raise("TypeError")
             ELSE IF ~PyIn(text_key, items[1]) THEN Fall
             ELSE IF ~GetItemDefined(items[1], text_key) THEN Raise("TypeError")
             ELSE StripOf(items[1].f[text_key])

GenericKeys == <<"text", "generatedText", "generation", "output", "outputText">>

RECURSIVE ExtractGeneric(_, _)
\* for key in (...): if key in body_json and isinstance(body_json[key], str):
\*     return body_json[key].strip()
ExtractGeneric(body_json, n) ==
    IF n > Len(GenericKeys) THEN Fall
    ELSE IF ~InDefined(body_json) THEN Raise("TypeError")
    ELSE IF ~PyIn(GenericKeys[n], body_json) THEN ExtractGeneric(body_json, n + 1)
    ELSE IF ~GetItemDefined(body_json, GenericKeys[n]) THEN Raise("TypeError")
    ELSE IF body_json.f[GenericKeys[n]].t # "str" THEN ExtractGeneric(body_json, n + 1)
    ELSE StripOf(body_json.f[GenericKeys[n]])

\* Lines 334-369: the family's extraction, the generic scan, the fixed message.
ExtractText(model_id, body_json) ==
    LET fam == Family(model_id)
        own == CASE fam = "nova"    -> ExtractNova(body_json)
                 [] fam = "llama"   -> ExtractLlama(body_json)
                 [] fam = "mistral" -> ExtractFirstOf(body_json, "outputs", "text")
                 [] OTHER           -> ExtractFirstOf(body_json, "results", "outputText")
        gen == ExtractGeneric(body_json, 1)
    IN  IF own.k # "fall" THEN own
        ELSE IF gen.k # "fall" THEN gen
        ELSE Return(FormatFallback)

\* Lines 274-369, the body of the try. An outcome of bedrock.invoke_model is
\*   [kind |-> "ok", ...]           a response whose body parses to `body`,
\*   [kind |-> "not_json", ...]     a response whose body json.loads rejects,
\*   [kind |-> "client_error", ...] a botocore ClientError with e.response,
\*   [kind |-> "other_error", ...]  any other exception (a connection error).
TryInvoke(model_id, outcome) ==
    CASE outcome.kind = "client_error" -> Raise("ClientError")
      [] outcome.kind = "other_error"  -> Raise("EndpointConnectionError")
      [] outcome.kind = "not_json"     -> Raise("JSONDecodeError")
      [] OTHER                         -> ExtractText(model_id, outcome.body)

\* OnClientError with the quota-exhaustion test left out of the throttling branch.
OnClientError_no_quota(error) ==
    LET error_code == IF error.has_code THEN error.code ELSE "Unknown"
        error_msg  == IF error.has_message THEN error.message ELSE error.text
    IN  IF Contains(error_code, "ValidationException")
           \/ Contains(error_code, "InvalidParameterException")
        THEN Return(ConfigFallback)
        ELSE IF Contains(error_code, "ThrottlingException")
        THEN Return(BusyFallback)
        ELSE IF Contains(error_code, "ModelNotFound")
                \/ Contains(error_code, "AccessDenied")
        THEN Return(UnavailableFallback)
        ELSE Return(GenericFallback(error_msg))

\* The function without its first handler: the ClientError leaves it.
OnClientError_reraise(error) == Raise("ClientError")

\* Lines 371-383. error is e.response["Error"]: code and message are ""
\* when the key is absent; text is str(e).
OnClientError(error) ==
    LET error_code == IF error.has_code THEN error.code ELSE "Unknown"
        error_msg  == IF error.has_message THEN error.message ELSE error.text
    IN  IF Contains(error_code, "ValidationException")
           \/ Contains(error_code, "InvalidParameterException")
        THEN Return(ConfigFallback)
        ELSE IF Contains(error_code, "ThrottlingException")
                \/ Contains(error_code, "ServiceQuotaExceededException")
        THEN Return(BusyFallback)
        ELSE IF Contains(error_code, "ModelNotFound")
                \/ Contains(error_code, "AccessDenied")
        THEN Return(UnavailableFallback)
        ELSE Return(GenericFallback(error_msg))

\* The function without its last handler: the exception leaves it.
OnException_reraise(exc) == Raise(exc)

\* Lines 384-386.
OnException(exc) == Return(UnexpectedFallback)

\* call_bedrock_model: what the call gives its caller, a returned string or
\* an exception that leaves the function.
call_bedrock_model(model_id, outcome) ==
    LET r == TryInvoke(model_id, outcome)
    IN  IF r.k # "raise" THEN r
        ELSE IF r.v = "ClientError" THEN OnClientError(outcome.error)
        ELSE OnException(r.v)

\* JSON objects of one and of two keys.
Obj1(k, v) == JDict(k :> v)
Obj2(k1, v1, k2, v2) == JDict(k1 :> v1 @@ k2 :> v2)

\* e.response["Error"] of a ClientError.
ErrorOf(code, message) ==
    [has_code |-> TRUE, code |-> code, has_message |-> TRUE, message |-> message,
     text |-> "An error occurred (" \o code \o ") when calling the InvokeModel operation: " \o message]

NoError == [has_code |-> FALSE, code |-> "", has_message |-> FALSE, message |-> "", text |-> ""]

(***************************************************************************)
(* Similarity matcher and FAQ cache lookup                                 *)
(***************************************************************************)

RECURSIVE CommonPrefix(_, _, _, _)
\* The length of the longest block a[i..] and b[j..] share at their start.
CommonPrefix(a, b, i, j) ==
    IF i > Len(a) \/ j > Len(b) \/ Slice(a, i, i) # Slice(b, j, j) THEN 0
    ELSE 1 + CommonPrefix(a, b, i + 1, j + 1)

\* SequenceMatcher.find_longest_match without junk (autojunk only sets in
\* at 200 characters): <<i, j, k>> with a[i..i+k-1] = b[j..j+k-1], k
\* maximal, then i minimal, then j minimal.
LongestMatch(a, b) ==
    LET pairs == (1..Len(a)) \X (1..Len(b))
        size(p) == CommonPrefix(a, b, p[1], p[2])
        k == IF pairs = {} THEN 0
             ELSE LET p == CHOOSE p \in pairs : \A q \in pairs : size(q) <= size(p)
                  IN  size(p)
        best == {p \in pairs : size(p) = k}
        first == CHOOSE p \in best :
                    \A q \in best : p[1] < q[1] \/ (p[1] = q[1] /\ p[2] <= q[2])
    IN  IF k = 0 THEN <<0, 0, 0>> ELSE <<first[1], first[2], k>>

RECURSIVE MatchingChars(_, _)
\* The sum of the sizes of SequenceMatcher.get_matching_blocks: the longest
\* match, then the same to its left and to its right.
MatchingChars(a, b) ==
    LET m == LongestMatch(a, b)
        i == m[1]
        j == m[2]
        k == m[3]
    IN  IF k = 0 THEN 0
        ELSE k + MatchingChars(Slice(a, 1, i - 1), Slice(b, 1, j - 1))
               + MatchingChars(Slice(a, i + k, Len(a)), Slice(b, j + k, Len(b)))

\* A score is the fraction num/den, den > 0.
Frac(n, d) == [num |-> n, den |-> d]
Less(x, y) == x.num * y.den < y.num * x.den
AtLeast(x, y) == ~Less(x, y)

\* SequenceMatcher.ratio(): 2.0 * matches / length, and 1.0 for two empty strings.
Ratio(a, b) ==
    IF Len(a) + Len(b) = 0 THEN Frac(1, 1)
    ELSE Frac(2 * MatchingChars(a, b), Len(a) + Len(b))

similarity_score(s1, s2) == Ratio(Lower(s1), Lower(s2))

\* Python's None as the result of a lookup, and a found entry (lines 215-220).
None == [none |-> TRUE, faq_id |-> "", question |-> "", answer |-> "", score |-> Frac(0, 1)]
Found(faq, score) ==
    [none |-> FALSE, faq_id |-> faq.faq_id, question |-> faq.question,
     answer |-> faq.answer, score |-> score]

RECURSIVE ScanBest(_, _, _, _)
\* Lines 204-220: the loop over faqs from item n on, with best so far
\* (best_score is best.score, 0.0 while best is None).
ScanBest(faqs, user_text, n, best) ==
    IF n > Len(faqs) THEN best
    ELSE LET score == similarity_score(user_text, faqs[n].question)
         IN  IF Less(best.score, score)
             THEN ScanBest(faqs, user_text, n + 1, Found(faqs[n], score))
             ELSE ScanBest(faqs, user_text, n + 1, best)

\* quick_faq_lookup. scan is what faq_table.scan() gave: [ok |-> TRUE,
\* items |-> the items in scan order] or, for a ClientError, [ok |-> FALSE].
quick_faq_lookup(scan, user_text, threshold) ==
    IF ~scan.ok THEN None
    ELSE IF Len(scan.items) = 0 THEN None
    ELSE LET best == ScanBest(scan.items, user_text, 1, None)
         IN  IF ~best.none /\ AtLeast(best.score, threshold) THEN best ELSE None

(***************************************************************************)
(* Escalation classifier and prompt assembler                              *)
(***************************************************************************)

escalation_triggers ==
    << "escalate", "speak to human", "contact support", "human agent",
       "contact us", "need assistance", "supervisor", "manager",
       "security concern", "fraud", "hacked", "suspicious",
       "refund dispute", "damaged", "defective", "exception",
       "very upset", "angry", "frustrated" >>

\* A should_escalate that compares the text as it is written.
should_escalate_case_sensitive(text) ==
    \E n \in 1..Len(escalation_triggers) : Contains(text, escalation_triggers[n])

should_escalate(text) ==
    LET text_lower == Lower(text)
    IN  \E n \in 1..Len(escalation_triggers) : Contains(text_lower, escalation_triggers[n])

\* str.upper() on one character.
UpperChar(c) ==
    IF \E k \in 1..26 : Slice(LowerChars, k, k) = c
    THEN LET k == CHOOSE k \in 1..26 : Slice(LowerChars, k, k) = c
         IN  Slice(UpperChars, k, k)
    ELSE c

RECURSIVE Upper(_)
\* str.upper()
Upper(s) ==
    IF s = "" THEN ""
    ELSE UpperChar(Slice(s, 1, 1)) \o Upper(Slice(s, 2, Len(s)))

SYSTEM_PROMPT ==
    "You are a helpful, friendly customer support assistant for our Amazon-style e-commerce marketplace. Your role is to assist customers with orders, shipping, returns, refunds, product questions, and account issues.\n"
    \o "\n"
    \o "KEY POLICIES:\n"
    \o "- Returns: 30 days from purchase for most items (electronics 15 days)\n"
    \o "- Free shipping on orders over $50; otherwise $5.99\n"
    \o "- Refunds processed within 5-10 business days after return received\n"
    \o "- Standard shipping: 5-7 business days | Express: 2-3 business days\n"
    \o "- Warranty: 1 year manufacturer warranty on electronics\n"
    \o "- Damaged/defective items replaced at no cost\n"
    \o "\n"
    \o "COMMUNICATION STYLE:\n"
    \o "- Be warm, professional, and efficient\n"
    \o "- Keep responses under 150 words\n"
    \o "- Use conversational tone but stay professional\n"
    \o "- Acknowledge customer frustration if present\n"
    \o "- Provide specific information (order numbers, dates, amounts)\n"
    \o "\n"
    \o "WHEN TO ESCALATE:\n"
    \o "- Customer is very upset or frustrated\n"
    \o "- Complex refund disputes or damaged items requiring proof\n"
    \o "- Security concerns (account hacked, fraud)\n"
    \o "- Payment authorization issues\n"
    \o "- Requests for exceptions to standard policies\n"
    \o "- Technical issues you cannot resolve\n"
    \o "\n"
    \o "Use conversation history for context. If you cannot help, clearly state why and offer escalation to our support team."

RECURSIVE HistoryParts(_, _)
\* Lines 262-265: one part per history item, each followed by the "\n" of
\* the join.
HistoryParts(history_items, n) ==
    IF n > Len(history_items) THEN ""
    ELSE Upper(history_items[n].role) \o ":\n" \o history_items[n].text \o "\n" \o "\n"
         \o HistoryParts(history_items, n + 1)

\* build_prompt_text: "\n".join(parts)
build_prompt_text(system_prompt, history_items, user_message) ==
    "SYSTEM:\n" \o Strip(system_prompt) \o "\n" \o "\n"
    \o HistoryParts(history_items, 1)
    \o "USER:\n" \o user_message \o "\n" \o "\n"
    \o "ASSISTANT:"

(***************************************************************************)
(* The two DynamoDB tables, the clock and uuid4                            *)
(***************************************************************************)

\* The first seeds of SEED_FAQS (lines 59-140).
SEED_FAQS ==
    << [question |-> "How do I track my order?",
       answer |-> "You can track your order anytime from your account under 'Orders & Returns'. You'll get real-time updates via email at each stage: confirmed, shipped, and delivered. Most orders arrive within 5-7 business days with standard shipping."],
      [question |-> "What is your return policy?",
       answer |-> "We offer 30-day returns on most items from the date of purchase. Electronics have a 15-day return window. Items must be unused, in original packaging, and in resellable condition. Refunds are processed within 5-10 business days after we receive your return."],
      [question |-> "How long does shipping take?",
       answer |-> "Standard shipping takes 5-7 business days. Express shipping (2-3 business days) is available for $9.99. Free shipping applies to orders over $50 with standard shipping. Shipping times exclude weekends and holidays."] >>

\* How many of them the model seeds.
NumSeeds == 2

\* uuid.uuid4().hex[:12] of the n-th call: never the same twice.
Hex == << "0a", "1b", "2c", "3d", "4e", "5f", "6a", "7b", "8c", "9d", "ae", "bf",
          "c0", "d1", "e2", "f3", "04", "15", "26", "37", "48", "59", "60", "71" >>
Uuid(n) == "0000000000" \o Hex[n]

\* A FAQTable item as save_new_faq builds it (lines 232-237).
FaqItem(faq_id, question, answer, created_at) ==
    [faq_id |-> faq_id, question |-> question, answer |-> answer, created_at |-> created_at]

\* A put that replaces the entry of the same question, if there is one.
FaqPut_upsert(table, item) ==
    IF \E n \in 1..Len(table) : table[n].question = item.question
    THEN LET n == CHOOSE n \in 1..Len(table) : table[n].question = item.question
         IN  [table EXCEPT ![n] = item]
    ELSE Append(table, item)

\* faq_table.put_item: faq_id is the key and is fresh, so the item is added.
FaqPut(table, item) == Append(table, item)

\* A ChatSessions item as save_message builds it (lines 152-161); source is
\* "" and escalate FALSE where `extra` is None.
Turn(session_id, message_ts, message_id, user_id, role, text, source, escalate) ==
    [session_id |-> session_id, message_ts |-> message_ts, message_id |-> message_id,
     user_id |-> user_id, role |-> role, text |-> text, source |-> source,
     escalate |-> escalate]

\* sessions_table.put_item: the table's key is (session_id, message_ts), the
\* partition key the query of line 173 names and the sort key its descending
\* order runs on; put_item replaces an item of the same key.
SessionsPut(table, item) ==
    {x \in table : ~(x.session_id = item.session_id /\ x.message_ts = item.message_ts)}
        \cup {item}

RECURSIVE SortedByTs(_)
\* sorted(items, key=lambda x: x["message_ts"])
SortedByTs(items) ==
    IF items = {} THEN <<>>
    ELSE LET first == CHOOSE x \in items : \A y \in items : x.message_ts <= y.message_ts
         IN  <<first>> \o SortedByTs(items \ {first})

\* sessions_table.query(session_id, ScanIndexForward=False, Limit=limit): the
\* `limit` items of the session with the greatest message_ts.
QueryRecent(table, session_id, limit) ==
    LET own == {x \in table : x.session_id = session_id}
    IN  {x \in own : Cardinality({y \in own : y.message_ts > x.message_ts}) < limit}

\* A get_recent_history that returns the items as the query gave them,
\* newest first.
get_recent_history_as_queried(table, session_id, limit, ok) ==
    IF ok
    THEN LET sorted == SortedByTs(QueryRecent(table, session_id, limit))
         IN  [n \in 1..Len(sorted) |-> sorted[Len(sorted) + 1 - n]]
    ELSE <<>>

\* get_recent_history: the query's items sorted, or [] after a ClientError.
get_recent_history(table, session_id, limit, ok) ==
    IF ok THEN SortedByTs(QueryRecent(table, session_id, limit)) ELSE <<>>

\* save_new_faq: the table after the call; a ClientError of put_item is
\* logged and the table is as before (lines 238-244).
save_new_faq(table, faq_id, question, answer, now, ok) ==
    IF ok THEN FaqPut(table, FaqItem(faq_id, question, answer, now)) ELSE table

(***************************************************************************)
(* State                                                                   *)
(***************************************************************************)

VARIABLES
    config,     \* the environment's settings, read at import (lines 18-20)
    faq,        \* FAQTable: its items, in the order they were put
    sessions,   \* ChatSessions: its items
    clock,      \* the UTC second now_iso() last returned
    uuids,      \* how many uuid4() values have been drawn
    faults,     \* how many store calls have raised ClientError
    inv,        \* per invocation of lambda_handler: its position and locals
    unit        \* a single call of one function on its own: its arguments and result

vars == <<config, faq, sessions, clock, uuids, faults, inv, unit>>
handlerVars == <<config, faq, sessions, clock, uuids, faults, inv>>

(***************************************************************************)
(* The environment of lambda_handler                                       *)
(***************************************************************************)

\* Invocations of lambda_handler, numbered in the order they arrive.
Invocations == {1, 2}

\* The clock runs from 0 to MaxClock seconds.
MaxClock == 1
\* At most MaxFaults store calls raise ClientError.
MaxFaults == 1

\* A key the request body does not hold.
Absent == [t |-> "absent", s |-> "", items |-> <<>>, f |-> <<>>]

Post(user_id, message, session_id) ==
    [httpMethod |-> "POST", kind |-> "object",
     user_id |-> user_id, message |-> message, session_id |-> session_id]

\* Requests: a preflight, a body that is no JSON, bodies lacking user_id or
\* message or holding only blanks, a null user_id, and complete requests with
\* and without a session_id.
Events ==
    { [httpMethod |-> "OPTIONS", kind |-> "object",
       user_id |-> Absent, message |-> Absent, session_id |-> Absent],
      [httpMethod |-> "POST", kind |-> "not_json",
       user_id |-> Absent, message |-> Absent, session_id |-> Absent],
      Post(Absent, Absent, Absent),
      Post(Absent, JStr("Where is my parcel?"), JStr("sess-1")),
      Post(JStr("  "), JStr("Where is my parcel?"), Absent),
      Post(JStr("u1"), Absent, JStr("sess-1")),
      Post(JStr(" u1 "), JStr(" \n"), Absent),
      Post(JNull, JStr("Where is my parcel?"), Absent),
      Post(JStr(" u1 "), JStr(" How do I track my order?\n"), Absent),
      Post(JStr("u1"), JStr("How do I track my order?"), JStr("sess-1")),
      Post(JStr("u1"), JStr("Where is my parcel?"), JStr("sess-1")) }

\* What bedrock.invoke_model does during a request: a reply, a reply that
\* names a trigger of escalation, one that names a trigger in capitals, a
\* body of no known shape, throttling.
PlainReply ==
    [kind |-> "ok", error |-> NoError,
     body |-> Obj1("output", Obj1("message", Obj1("content",
                JList(<<Obj1("text", JStr(" Your parcel arrives on Friday. "))>>))))]
Throttled ==
    [kind |-> "client_error", body |-> JNull,
     error |-> ErrorOf("ThrottlingException", "Too many requests")]
HandlerOutcomes ==
    { PlainReply,
      [kind |-> "ok", error |-> NoError,
       body |-> Obj1("output", Obj1("message", Obj1("content",
                  JList(<<Obj1("text", JStr("It seems your account was hacked."))>>))))],
      [kind |-> "ok", error |-> NoError,
       body |-> Obj1("output", Obj1("message", Obj1("content",
                  JList(<<Obj1("text", JStr("Please Contact Support about it."))>>))))],
      [kind |-> "ok", error |-> NoError, body |-> Obj1("unknown", JStr("nothing usable"))],
      Throttled }

\* The settings of lines 18-20 at their defaults, and MAX_HISTORY_MESSAGES
\* also at 1.
DefaultConfig ==
    [model_id |-> "amazon.nova-pro-v1:0", max_history |-> 10, threshold |-> Frac(1, 2)]
Configs == {DefaultConfig, [DefaultConfig EXCEPT !.max_history = 1]}

NoPayload ==
    [session_id |-> "", message_id |-> "", reply |-> "", timestamp |-> 0,
     source |-> "", escalate |-> FALSE, error |-> "", message |-> ""]

\* An invocation that has not begun. pc is the statement it is at; trace is
\* the steps of the resolve it has performed, each with whether its store
\* call succeeded; outcome is what bedrock.invoke_model did when called.
NotBegun ==
    [pc |-> "start", event |-> Post(Absent, Absent, Absent), seed_idx |-> 0,
     user_id |-> "", user_message |-> "", session_id |-> "", user_msg_id |-> "",
     history |-> <<>>, faq_hit |-> None, prompt_text |-> "", reply_text |-> "",
     source |-> "", escalate |-> FALSE, assistant_msg_id |-> "",
     statusCode |-> 0, payload |-> NoPayload, raised |-> "", trace |-> <<>>,
     outcome |-> [kind |-> "none", body |-> JNull, error |-> NoError]]

Step(name, ok) == [step |-> name, ok |-> ok]

HandlerInit ==
    /\ faq = <<>>
    /\ sessions = {}
    /\ clock = 0
    /\ uuids = 0
    /\ faults = 0
    /\ inv = [i \in Invocations |-> NotBegun]

Init ==
    /\ config \in Configs
    /\ HandlerInit
    /\ unit = [op |-> "none"]

\* The outcomes of a store call: it may raise while faults are left.
StoreOk == IF faults < MaxFaults THEN {TRUE, FALSE} ELSE {TRUE}
\* now_iso(): the second read, never before the last one read.
now_iso == IF clock < MaxClock THEN {clock, clock + 1} ELSE {clock}

Finished(i) == inv[i].pc \in {"returned", "raised"}

(***************************************************************************)
(* lambda_handler, statement by statement                                  *)
(***************************************************************************)

Invoke(i, event) ==
    /\ inv[i].pc = "start"
    /\ \A j \in Invocations : j < i => inv[j].pc # "start"
    /\ inv' = [inv EXCEPT ![i].pc = "seed_scan", ![i].event = event]
    /\ UNCHANGED <<config, faq, sessions, clock, uuids, faults, unit>>

\* One request: the first invocation begins.
InvokeFirst == \E event \in Events : Invoke(1, event)

\* init_seed_faqs that seeds whatever the scan counted.
SeedingNeeded_always(count) == TRUE

\* if count == 0 (line 251)
SeedingNeeded(count) == count = 0

\* init_seed_faqs, lines 248-252 and 255-256: the scan and its Count. A
\* failed scan is logged and seeds nothing.
SeedScan(i) ==
    /\ inv[i].pc = "seed_scan"
    /\ \E ok \in StoreOk :
         /\ faults' = IF ok THEN faults ELSE faults + 1
         /\ inv' = [inv EXCEPT
                      ![i].pc = IF ok /\ SeedingNeeded(Len(faq)) THEN "seeding" ELSE "route",
                      ![i].seed_idx = 1]
    /\ UNCHANGED <<config, faq, sessions, clock, uuids, unit>>

\* init_seed_faqs, lines 253-254: save_new_faq of the next seed.
SeedPut(i) ==
    /\ inv[i].pc = "seeding"
    /\ \E ok \in StoreOk, now \in now_iso :
         LET k == inv[i].seed_idx
         IN  /\ faq' = save_new_faq(faq, "faq-" \o Uuid(uuids + 1), SEED_FAQS[k].question,
                                    SEED_FAQS[k].answer, now, ok)
             /\ uuids' = uuids + 1
             /\ clock' = now
             /\ faults' = IF ok THEN faults ELSE faults + 1
             /\ inv' = [inv EXCEPT ![i].seed_idx = k + 1,
                                   ![i].pc = IF k = NumSeeds THEN "route" ELSE "seeding"]
    /\ UNCHANGED <<config, sessions, unit>>

\* body.get(key, "") of a request body.
GetOr(field, default) == IF field.t = "absent" THEN default ELSE field

Returned(statusCode, payload) == [statusCode |-> statusCode, payload |-> payload]

\* A validation that looks at user_id only.
Missing_user_only(user_id, user_message) == user_id = ""

\* if not user_id or not user_message (line 434), on the stripped strings
Missing(user_id, user_message) == user_id = "" \/ user_message = ""

\* Lines 421-437: the preflight, the body, the three fields, the validation.
\* The result is the response returned, the exception raised, or the stripped
\* fields to go on with; session is TRUE when create_session_id() was called.
Validate(event, fresh_session) ==
    LET user_id == GetOr(event.user_id, JStr(""))
        message == GetOr(event.message, JStr(""))
        given   == event.session_id.t = "str" /\ event.session_id.s # ""
        none    == [k |-> "go", response |-> Returned(0, NoPayload), raised |-> "",
                    user_id |-> "", user_message |-> "", session_id |-> "", session |-> FALSE]
    IN  IF event.httpMethod = "OPTIONS"
        THEN [none EXCEPT !.k = "return",
                          !.response = Returned(200, [NoPayload EXCEPT !.message = "CORS preflight OK"])]
        ELSE IF event.kind = "not_json"
        THEN [none EXCEPT !.k = "return",
                          !.response = Returned(400, [NoPayload EXCEPT !.error = "Invalid JSON body"])]
        ELSE IF user_id.t # "str" \/ message.t # "str"
        THEN [none EXCEPT !.k = "raise", !.raised = "AttributeError"]
        ELSE IF Missing(Strip(user_id.s), Strip(message.s))
        THEN [none EXCEPT !.k = "return", !.session = ~given,
                          !.response = Returned(400, [NoPayload EXCEPT
                                          !.error = "user_id and message are required"])]
        ELSE [none EXCEPT !.user_id = Strip(user_id.s), !.user_message = Strip(message.s),
                          !.session = ~given,
                          !.session_id = IF given THEN event.session_id.s ELSE fresh_session]

Route(i) ==
    /\ inv[i].pc = "route"
    /\ LET v == Validate(inv[i].event, "sess-" \o Uuid(uuids + 1))
       IN  /\ uuids' = IF v.session THEN uuids + 1 ELSE uuids
           /\ inv' = [inv EXCEPT
                        ![i].pc = CASE v.k = "return" -> "returned"
                                    [] v.k = "raise"  -> "raised"
                                    [] OTHER          -> "save_user",
                        ![i].statusCode = v.response.statusCode,
                        ![i].payload = v.response.payload,
                        ![i].raised = v.raised,
                        ![i].user_id = v.user_id,
                        ![i].user_message = v.user_message,
                        ![i].session_id = v.session_id]
    /\ UNCHANGED <<config, faq, sessions, clock, faults, unit>>

\* A save_message that logs the ClientError and returns.
save_message_swallow(table, item, ok) ==
    IF ok THEN [raised |-> FALSE, table |-> SessionsPut(table, item)]
    ELSE [raised |-> FALSE, table |-> table]

\* save_message: the table after the call and whether the call returned; a
\* ClientError of put_item is logged and raised again (lines 162-167).
save_message(table, item, ok) ==
    IF ok THEN [raised |-> FALSE, table |-> SessionsPut(table, item)]
    ELSE [raised |-> TRUE, table |-> table]

\* Lines 440-441.
SaveUser(i) ==
    /\ inv[i].pc = "save_user"
    /\ \E ok \in StoreOk, now \in now_iso :
         LET id == "msg-" \o Uuid(uuids + 1)
             r  == save_message(sessions, Turn(inv[i].session_id, now, id, inv[i].user_id,
                                               "user", inv[i].user_message, "", FALSE), ok)
         IN  /\ sessions' = r.table
             /\ uuids' = uuids + 1
             /\ clock' = now
             /\ faults' = IF ok THEN faults ELSE faults + 1
             /\ inv' = [inv EXCEPT
                          ![i].user_msg_id = id,
                          ![i].pc = IF r.raised THEN "raised" ELSE "history",
                          ![i].raised = IF r.raised THEN "ClientError" ELSE "",
                          ![i].trace = IF r.raised THEN @ ELSE Append(@, Step("user_turn", TRUE))]
    /\ UNCHANGED <<config, faq, unit>>

\* Line 444.
GetHistory(i) ==
    /\ inv[i].pc = "history"
    /\ \E ok \in StoreOk :
         /\ faults' = IF ok THEN faults ELSE faults + 1
         /\ inv' = [inv EXCEPT
                      ![i].history = get_recent_history(sessions, inv[i].session_id,
                                                        config.max_history, ok),
                      ![i].pc = "lookup",
                      ![i].trace = Append(@, Step("history", ok))]
    /\ UNCHANGED <<config, faq, sessions, clock, uuids, unit>>

\* Line 448: faq_hit = None. The cache is not looked up.
FaqHit(table, user_text, threshold) == None

\* A handler that goes from the miss to the model without line 457.
Lookup_no_placeholder(i) ==
    /\ inv[i].pc = "lookup"
    /\ inv' = [inv EXCEPT ![i].faq_hit = FaqHit(faq, inv[i].user_message, config.threshold),
                          ![i].pc = "generate"]
    /\ UNCHANGED <<config, faq, sessions, clock, uuids, faults, unit>>

\* Lines 448-457: the hit, or the question saved with an empty answer.
Lookup(i) ==
    /\ inv[i].pc = "lookup"
    /\ LET hit == FaqHit(faq, inv[i].user_message, config.threshold)
       IN  IF ~hit.none
           THEN /\ inv' = [inv EXCEPT ![i].faq_hit = hit,
                                      ![i].reply_text = hit.answer,
                                      ![i].source = "faq",
                                      ![i].escalate = FALSE,
                                      ![i].pc = "save_assistant"]
                /\ UNCHANGED <<faq, clock, uuids, faults>>
           ELSE \E ok \in StoreOk, now \in now_iso :
                  /\ faq' = save_new_faq(faq, "faq-" \o Uuid(uuids + 1),
                                         inv[i].user_message, "", now, ok)
                  /\ uuids' = uuids + 1
                  /\ clock' = now
                  /\ faults' = IF ok THEN faults ELSE faults + 1
                  /\ inv' = [inv EXCEPT ![i].faq_hit = hit,
                                        ![i].pc = "generate",
                                        ![i].trace = Append(@, Step("placeholder", ok))]
    /\ UNCHANGED <<config, sessions, unit>>

\* call_bedrock_model and should_escalate tabulated over the outcomes of a
\* request, so that each is computed once.
Replies ==
    [m \in {c.model_id : c \in Configs} |->
        [o \in HandlerOutcomes |-> call_bedrock_model(m, o)]]
ReplyTexts ==
    {Replies[m][o].v : m \in {c.model_id : c \in Configs}, o \in HandlerOutcomes}
Escalations == [text \in ReplyTexts |-> should_escalate(text)]

\* Lines 460-463, bedrock.invoke_model doing one of `outcomes`.
GenerateWith(i, outcomes) ==
    /\ inv[i].pc = "generate"
    /\ \E outcome \in outcomes :
         LET prompt_text == build_prompt_text(SYSTEM_PROMPT, inv[i].history, inv[i].user_message)
             r == Replies[config.model_id][outcome]
         IN  inv' = [inv EXCEPT
                       ![i].outcome = outcome,
                       ![i].prompt_text = prompt_text,
                       ![i].reply_text = IF r.k = "return" THEN r.v ELSE "",
                       ![i].source = IF r.k = "return" THEN "model" ELSE "",
                       ![i].escalate = IF r.k = "return" THEN Escalations[r.v] ELSE FALSE,
                       ![i].raised = IF r.k = "return" THEN "" ELSE r.v,
                       ![i].pc = IF r.k = "return" THEN "save_answer" ELSE "raised",
                       ![i].trace = IF r.k = "return"
                                    THEN @ \o <<Step("invoke", TRUE), Step("classify", TRUE)>>
                                    ELSE Append(@, Step("invoke", FALSE))]
    /\ UNCHANGED <<config, faq, sessions, clock, uuids, faults, unit>>

\* Lines 460-463.
Generate(i) == GenerateWith(i, HandlerOutcomes)

\* Line 466.
SaveAnswer(i) ==
    /\ inv[i].pc = "save_answer"
    /\ \E ok \in StoreOk, now \in now_iso :
         /\ faq' = save_new_faq(faq, "faq-" \o Uuid(uuids + 1), inv[i].user_message,
                                inv[i].reply_text, now, ok)
         /\ uuids' = uuids + 1
         /\ clock' = now
         /\ faults' = IF ok THEN faults ELSE faults + 1
         /\ inv' = [inv EXCEPT ![i].pc = "save_assistant",
                               ![i].trace = Append(@, Step("answer", ok))]
    /\ UNCHANGED <<config, sessions, unit>>

\* Lines 470-478.
SaveAssistant(i) ==
    /\ inv[i].pc = "save_assistant"
    /\ \E ok \in StoreOk, now \in now_iso :
         LET id == "msg-" \o Uuid(uuids + 1)
             r  == save_message(sessions, Turn(inv[i].session_id, now, id, inv[i].user_id,
                                               "assistant", inv[i].reply_text,
                                               inv[i].source, inv[i].escalate), ok)
         IN  /\ sessions' = r.table
             /\ uuids' = uuids + 1
             /\ clock' = now
             /\ faults' = IF ok THEN faults ELSE faults + 1
             /\ inv' = [inv EXCEPT
                          ![i].assistant_msg_id = id,
                          ![i].pc = IF r.raised THEN "raised" ELSE "respond",
                          ![i].raised = IF r.raised THEN "ClientError" ELSE "",
                          ![i].trace = IF r.raised THEN @
                                       ELSE Append(@, Step("assistant_turn", TRUE))]
    /\ UNCHANGED <<config, faq, unit>>

\* Lines 480-490.
Respond(i) ==
    /\ inv[i].pc = "respond"
    /\ \E now \in now_iso :
         /\ clock' = now
         /\ inv' = [inv EXCEPT
                      ![i].pc = "returned",
                      ![i].statusCode = 200,
                      ![i].payload = [NoPayload EXCEPT
                                        !.session_id = inv[i].session_id,
                                        !.message_id = inv[i].assistant_msg_id,
                                        !.reply = inv[i].reply_text,
                                        !.timestamp = now,
                                        !.source = inv[i].source,
                                        !.escalate = inv[i].escalate],
                      ![i].trace = Append(@, Step("respond", TRUE))]
    /\ UNCHANGED <<config, faq, sessions, uuids, faults, unit>>

Next ==
    \/ InvokeFirst
    \/ \E i \in Invocations :
        \/ SeedScan(i)
        \/ SeedPut(i)
        \/ Route(i)
        \/ SaveUser(i)
        \/ GetHistory(i)
        \/ Lookup(i)
        \/ Generate(i)
        \/ SaveAnswer(i)
        \/ SaveAssistant(i)
        \/ Respond(i)

Spec == Init /\ [][Next]_vars

(***************************************************************************)
(* init_seed_faqs twice in sequence: a second invocation begins when the   *)
(* first has left init_seed_faqs.                                          *)
(***************************************************************************)

InvokeAfterSeeding(i) ==
    /\ \A j \in Invocations : j # i => inv[j].pc \in {"start", "route"}
    /\ \E event \in Events : Invoke(i, event)

NextBootstrap ==
    \E i \in Invocations :
        \/ InvokeAfterSeeding(i)
        \/ SeedScan(i)
        \/ SeedPut(i)

SpecBootstrap == Init /\ [][NextBootstrap]_vars

(***************************************************************************)
(* Two complete requests, the second arriving when the first has ended.    *)
(***************************************************************************)

\* The requests of Events that pass the validation.
CompleteEvents ==
    {event \in Events :
        /\ event.httpMethod = "POST"
        /\ event.kind = "object"
        /\ event.user_id.t = "str" /\ Strip(event.user_id.s) # ""
        /\ event.message.t = "str" /\ Strip(event.message.s) # ""}

InvokeNext(i) ==
    /\ \A j \in Invocations : j # i => inv[j].pc = "start" \/ Finished(j)
    /\ \E event \in CompleteEvents : Invoke(i, event)

\* The model answers.
GenerateReply(i) == GenerateWith(i, {PlainReply})

NextSessions ==
    \E i \in Invocations :
        \/ InvokeNext(i)
        \/ SeedScan(i)
        \/ SeedPut(i)
        \/ Route(i)
        \/ SaveUser(i)
        \/ GetHistory(i)
        \/ Lookup(i)
        \/ GenerateReply(i)
        \/ SaveAnswer(i)
        \/ SaveAssistant(i)
        \/ Respond(i)

SpecSessions == Init /\ [][NextSessions]_vars

(***************************************************************************)
(* Two invocations that overlap in any way: each statement of a handler is *)
(* one step, and the store calls of the two interleave.                    *)
(***************************************************************************)

\* Both requests ask the same question in the same session.
OverlapEvents ==
    {event \in CompleteEvents :
        event.message.s = "How do I track my order?" /\ event.session_id.t = "str"}

InvokeAnyTime(i) == \E event \in OverlapEvents : Invoke(i, event)

\* The cache as an earlier bootstrap left it.
Seeded ==
    [n \in 1..NumSeeds |->
        FaqItem("faq-" \o Uuid(n), SEED_FAQS[n].question, SEED_FAQS[n].answer, 0)]

\* The cache is seeded, so init_seed_faqs puts nothing.
InitOverlap ==
    /\ config = DefaultConfig
    /\ faq = Seeded
    /\ sessions = {}
    /\ clock = 0
    /\ uuids = NumSeeds
    /\ faults = 0
    /\ inv = [i \in Invocations |-> NotBegun]
    /\ unit = [op |-> "none"]

NextOverlap ==
    \E i \in Invocations :
        \/ InvokeAnyTime(i)
        \/ SeedScan(i)
        \/ Route(i)
        \/ SaveUser(i)
        \/ GetHistory(i)
        \/ Lookup(i)
        \/ GenerateReply(i)
        \/ SaveAnswer(i)
        \/ SaveAssistant(i)
        \/ Respond(i)

SpecOverlap == InitOverlap /\ [][NextOverlap]_vars

(***************************************************************************)
(* init_seed_faqs of two invocations that start on an empty cache and      *)
(* overlap in any way.                                                     *)
(***************************************************************************)

NextBootstrapOverlap ==
    \E i \in Invocations :
        \/ InvokeAnyTime(i)
        \/ SeedScan(i)
        \/ SeedPut(i)

SpecBootstrapOverlap == Init /\ [][NextBootstrapOverlap]_vars

(***************************************************************************)
(* call_bedrock_model on its own: every model family against every outcome *)
(* of bedrock.invoke_model.                                                *)
(***************************************************************************)

\* Values of BEDROCK_MODEL_ID (line 18): the default, one identifier per
\* branch of the family chain, and one that names two families in capitals.
ModelIds ==
    { "amazon.nova-pro-v1:0", "meta.llama3-8b-instruct-v1:0",
      "mistral.mistral-7b-instruct-v0:2", "amazon.titan-text-express-v1",
      "Custom-NOVA-Llama" }

\* Response bodies: each family's documented shape, the same shapes with a
\* field of another type (alone and beside a generic field), the generic
\* fields, and bodies that are no object.
Bodies ==
    { Obj1("output", Obj1("message", Obj1("content", JList(<<Obj1("text", JStr(" Hello there \n"))>>)))),
      Obj1("output", Obj1("message", Obj1("content", JList(<<JNum, Obj1("text", JStr("second block"))>>)))),
      Obj1("output", Obj1("message", Obj1("content", JList(<<Obj1("text", JNum)>>)))),
      Obj1("output", Obj1("message", Obj1("content", JStr("text")))),
      Obj1("output", Obj1("message", JNum)),
      Obj1("output", Obj1("message", JStr("no content here"))),
      Obj1("output", JNum),
      Obj1("output", JNull),
      Obj1("output", JStr(" plain output ")),
      Obj1("output", JStr("a message")),
      Obj1("output", JList(<<JStr("message")>>)),
      Obj1("content", JList(<<Obj1("text", JStr("top-level content"))>>)),
      Obj1("content", JList(<<Obj1("text", JNull)>>)),
      Obj2("output", EmptyDict, "text", JStr("generic text")),
      Obj2("output", JNum, "text", JStr("generic beside output")),
      Obj1("generation", JStr(" llama says hi ")),
      Obj1("generation", JNum),
      Obj1("outputs", JList(<<Obj1("text", JStr("mistral says hi"))>>)),
      Obj1("outputs", JList(<<Obj1("text", JNum)>>)),
      Obj1("outputs", JList(<<JNum>>)),
      Obj1("outputs", JList(<<JStr("text")>>)),
      Obj1("outputs", JList(<<>>)),
      Obj1("outputs", JNum),
      Obj1("results", JList(<<Obj1("outputText", JStr("titan says hi"))>>)),
      Obj1("results", JList(<<Obj1("outputText", JNull)>>)),
      Obj1("results", JList(<<JNull>>)),
      Obj2("generatedText", JNum, "outputText", JStr("later generic field")),
      Obj2("text", JStr("first"), "outputText", JStr("second")),
      Obj1("unknown", JStr("nothing usable")),
      EmptyDict,
      JList(<<JStr("text")>>),
      JList(<<>>),
      JStr("some text"),
      JNum,
      JNull }

ClientErrors ==
    { ErrorOf("ValidationException", "Malformed input request"),
      ErrorOf("InvalidParameterException", "max_new_tokens out of range"),
      ErrorOf("ThrottlingException", "Too many requests"),
      ErrorOf("ServiceQuotaExceededException", "Quota exceeded"),
      ErrorOf("ModelNotFoundException", "No such model"),
      ErrorOf("AccessDeniedException", "You don't have access to the model"),
      ErrorOf("ResourceNotFoundException", "Could not resolve the foundation model"),
      ErrorOf("ModelTimeoutException", "Model timed out"),
      ErrorOf("InternalServerException", "Internal failure"),
      \* e.response without "Error": the code defaults to "Unknown", the message to str(e)
      [has_code |-> FALSE, code |-> "", has_message |-> FALSE, message |-> "",
       text |-> "An error occurred (Unknown) when calling the InvokeModel operation: Unknown"] }

Outcomes ==
    {[kind |-> "ok", body |-> b, error |-> NoError] : b \in Bodies}
    \cup {[kind |-> "client_error", body |-> JNull, error |-> e] : e \in ClientErrors}
    \cup {[kind |-> "not_json", body |-> JNull, error |-> NoError],
          [kind |-> "other_error", body |-> JNull, error |-> NoError]}

InitGenerate ==
    /\ config = DefaultConfig
    /\ HandlerInit
    /\ unit \in {[op |-> "call_bedrock_model", model_id |-> m, outcome |-> o,
               done |-> FALSE, result |-> Fall] : m \in ModelIds, o \in Outcomes}

CallModel ==
    /\ unit.op = "call_bedrock_model"
    /\ ~unit.done
    /\ unit' = [unit EXCEPT !.done = TRUE,
                            !.result = call_bedrock_model(unit.model_id, unit.outcome)]
    /\ UNCHANGED handlerVars

SpecGenerate == InitGenerate /\ [][CallModel]_vars

Called == unit.op = "call_bedrock_model" /\ unit.done

\* C2: generate never raises. Whatever bedrock.invoke_model did (a response
\* with any body, a ClientError, any other exception), the finished call has
\* returned a string to its caller.
C2_GenerateNeverRaises == Called => unit.result.k = "return"

\* C2's case: a connection error inside the call, answered by the string of
\* the last handler.
C2_Witness ==
    /\ Called
    /\ unit.outcome.kind = "other_error"
    /\ unit.result = Return(UnexpectedFallback)

\* The classes of service error the specification names, by error code.
ConfigurationCodes == {"ValidationException", "InvalidParameterException"}
ThrottlingCodes    == {"ThrottlingException", "ServiceQuotaExceededException"}
UnavailableCodes   == {"ModelNotFoundException", "AccessDeniedException"}

\* The error text the service sent: its message, or str(e) without one.
UpstreamText(error) == IF error.has_message THEN error.message ELSE error.text

\* C3: a service error gives exactly the fallback string of its class:
\* configuration, busy, model not available, and for every other service
\* error the generic message around the upstream error text.
C3_ServiceErrorFallback ==
    Called /\ unit.outcome.kind = "client_error" =>
        LET error == unit.outcome.error
            code  == IF error.has_code THEN error.code ELSE "Unknown"
        IN  /\ unit.result.k = "return"
            /\ code \in ConfigurationCodes => unit.result.v = ConfigFallback
            /\ code \in ThrottlingCodes    => unit.result.v = BusyFallback
            /\ code \in UnavailableCodes   => unit.result.v = UnavailableFallback
            /\ code \notin ConfigurationCodes \cup ThrottlingCodes \cup UnavailableCodes =>
                 unit.result.v = "AI service error: " \o UpstreamText(error)
                                    \o ". Please try again or contact support."

\* C3's case: quota exhaustion answered by the busy message.
C3_Witness ==
    /\ Called
    /\ unit.outcome.kind = "client_error"
    /\ unit.outcome.error.code = "ServiceQuotaExceededException"
    /\ unit.result = Return(BusyFallback)

\* v is an object holding key.
Has(v, key) == v.t = "dict" /\ key \in DOMAIN v.f
\* v is an object whose key holds a string.
HasStr(v, key) == Has(v, key) /\ v.f[key].t = "str"
\* v is a list with a block whose "text" is a string.
HasTextBlock(v) ==
    v.t = "list" /\ \E n \in 1..Len(v.items) : HasStr(v.items[n], "text")
\* v is a non-empty list whose first element holds a string under key.
FirstHasStr(v, key) == v.t = "list" /\ Len(v.items) > 0 /\ HasStr(v.items[1], key)

\* The body holds a text at the family's own extraction path.
FamilyTextPresent(fam, body) ==
    CASE fam = "nova" ->
           \/ /\ Has(body, "output")
              /\ Has(body.f["output"], "message")
              /\ Has(body.f["output"].f["message"], "content")
              /\ HasTextBlock(body.f["output"].f["message"].f["content"])
           \/ Has(body, "content") /\ HasTextBlock(body.f["content"])
      [] fam = "llama"   -> HasStr(body, "generation")
      [] fam = "mistral" -> Has(body, "outputs") /\ FirstHasStr(body.f["outputs"], "text")
      [] OTHER           -> Has(body, "results") /\ FirstHasStr(body.f["results"], "outputText")

\* The body holds a string under one of the generic field names.
GenericTextPresent(body) ==
    \E n \in 1..Len(GenericKeys) : HasStr(body, GenericKeys[n])

\* C4: when the call succeeds and the body holds no text, neither at the
\* family's path nor under a generic field name, generate returns the fixed
\* "unexpected response format" message, for every family and body shape.
C4_FormatFallback ==
    /\ Called
    /\ unit.outcome.kind = "ok"
    /\ ~FamilyTextPresent(Family(unit.model_id), unit.outcome.body)
    /\ ~GenericTextPresent(unit.outcome.body)
    => unit.result = Return(FormatFallback)

\* The first block of list v that holds a string under "text".
FirstStrBlock(v) ==
    LET n == CHOOSE n \in 1..Len(v.items) :
                 /\ HasStr(v.items[n], "text")
                 /\ \A m \in 1..(n - 1) : ~HasStr(v.items[m], "text")
    IN  v.items[n].f["text"].s

\* The text at the family's own extraction path, where FamilyTextPresent.
FamilyText(fam, body) ==
    CASE fam = "nova" ->
           IF /\ Has(body, "output")
              /\ Has(body.f["output"], "message")
              /\ Has(body.f["output"].f["message"], "content")
              /\ HasTextBlock(body.f["output"].f["message"].f["content"])
           THEN FirstStrBlock(body.f["output"].f["message"].f["content"])
           ELSE FirstStrBlock(body.f["content"])
      [] fam = "llama"   -> body.f["generation"].s
      [] fam = "mistral" -> body.f["outputs"].items[1].f["text"].s
      [] OTHER           -> body.f["results"].items[1].f["outputText"].s

\* The string under the first generic field name that holds one.
FirstGenericText(body) ==
    LET n == CHOOSE n \in 1..Len(GenericKeys) :
                 /\ HasStr(body, GenericKeys[n])
                 /\ \A m \in 1..(n - 1) : ~HasStr(body, GenericKeys[m])
    IN  body.f[GenericKeys[n]].s

\* C16: after a successful call, generate returns the text at the path of
\* the model's family (trimmed) whenever the body holds one there, and
\* otherwise the string of the first of text, generatedText, generation,
\* output, outputText that holds one; the family is the one the identifier
\* names by the precedence nova, llama, mistral, default.
C16_FamilyPathThenGeneric ==
    Called /\ unit.outcome.kind = "ok" =>
        LET fam  == Family(unit.model_id)
            body == unit.outcome.body
        IN  /\ FamilyTextPresent(fam, body) =>
                 unit.result = Return(Strip(FamilyText(fam, body)))
            /\ ~FamilyTextPresent(fam, body) /\ GenericTextPresent(body) =>
                 unit.result = Return(Strip(FirstGenericText(body)))

(***************************************************************************)
(* quick_faq_lookup on its own: every scan result of up to MaxScan items   *)
(* against every user text and threshold.                                  *)
(***************************************************************************)

MaxScan == 2

\* Questions a scanned item may hold, and user texts to look up: equal up to
\* case, close, and sharing no character.
Questions == {"track order", "Track Order", "refund", "xyz"}
UserTexts == {"track order", "track my order", "REFUND", "qqq"}

\* Values of FAQ_MATCH_THRESHOLD (line 20) in [0, 1]; the default is 0.5.
Thresholds == {Frac(0, 1), Frac(1, 2), Frac(9, 10), Frac(1, 1)}

\* The item at position n of a scan: put by save_new_faq, so its faq_id is
\* its own and its answer may be empty.
ItemAt(n, question) ==
    [faq_id |-> IF n = 1 THEN "faq-1" ELSE IF n = 2 THEN "faq-2" ELSE "faq-3",
     question |-> question,
     answer |-> IF question = "xyz" THEN "" ELSE "answer to " \o question,
     created_at |-> 0]

Scans ==
    {[ok |-> FALSE, items |-> <<>>]} \cup
    UNION {{[ok |-> TRUE, items |-> [n \in 1..len |-> ItemAt(n, qs[n])]] :
              qs \in [1..len -> Questions]} : len \in 0..MaxScan}

InitLookup ==
    /\ config = DefaultConfig
    /\ HandlerInit
    /\ unit \in {[op |-> "quick_faq_lookup", scan |-> sc, user_text |-> u,
               threshold |-> th, done |-> FALSE, result |-> None] :
                  sc \in Scans, u \in UserTexts, th \in Thresholds}

CallLookup ==
    /\ unit.op = "quick_faq_lookup"
    /\ ~unit.done
    /\ unit' = [unit EXCEPT !.done = TRUE,
                            !.result = quick_faq_lookup(unit.scan, unit.user_text,
                                                        unit.threshold)]
    /\ UNCHANGED handlerVars

SpecLookup == InitLookup /\ [][CallLookup]_vars

LookedUp == unit.op = "quick_faq_lookup" /\ unit.done /\ unit.scan.ok

\* The score of item n of the finished lookup's scan.
ScoreOf(n) == similarity_score(unit.user_text, unit.scan.items[n].question)
\* The positions holding the highest score.
Top == {n \in 1..Len(unit.scan.items) :
           \A m \in 1..Len(unit.scan.items) : AtLeast(ScoreOf(n), ScoreOf(m))}
FirstTop == CHOOSE n \in Top : \A m \in Top : n <= m

\* C5: lookup returns none on an empty cache and when the best score is
\* strictly below the threshold; otherwise, for every threshold in [0, 1], it
\* returns the entry with the highest score, the first in scan order on a tie.
C5_LookupBest ==
    LookedUp =>
        IF Len(unit.scan.items) = 0 THEN unit.result = None
        ELSE IF Less(ScoreOf(FirstTop), unit.threshold) THEN unit.result = None
        ELSE unit.result = Found(unit.scan.items[FirstTop], ScoreOf(FirstTop))
(***************************************************************************)
(* Properties of lambda_handler                                            *)
(***************************************************************************)

\* A field of the request that is missing, empty, or blank.
EmptyOrMissing(field) == field.t = "absent" \/ (field.t = "str" /\ Strip(field.s) = "")
\* A field that is a string where it is present.
IsText(field) == field.t \in {"absent", "str"}
\* The invocation has gone past the validation of line 434.
PastValidation(i) == inv[i].pc \notin {"start", "seed_scan", "seeding", "route"}
\* The request of invocation i is a POST of a JSON object whose user_id or
\* message is empty or missing.
Incomplete(i) ==
    LET event == inv[i].event
    IN  /\ event.httpMethod = "POST"
        /\ event.kind = "object"
        /\ IsText(event.user_id)
        /\ IsText(event.message)
        /\ EmptyOrMissing(event.user_id) \/ EmptyOrMissing(event.message)

\* C1: a request whose user_id or message is empty or missing after trimming
\* ends with the validation error and goes no further: no turn is stored,
\* the model is not invoked, no cache entry carries the message.
C1_ValidationFailsFast ==
    \A i \in Invocations :
        PastValidation(i) /\ Incomplete(i) =>
            /\ inv[i].pc = "returned"
            /\ inv[i].statusCode = 400
            /\ inv[i].payload.error = "user_id and message are required"
            /\ inv[i].trace = <<>>
            /\ inv[i].reply_text = ""
            /\ sessions = {}
            /\ \A n \in 1..Len(faq) :
                 /\ faq[n].question # GetOr(inv[i].event.message, JStr("")).s
                 /\ faq[n].question # Strip(GetOr(inv[i].event.message, JStr("")).s)

\* C1's case: a message of blanks only, with a user_id, refused after the
\* seeds were stored.
C1_Witness ==
    \E i \in Invocations :
        /\ inv[i].pc = "returned"
        /\ inv[i].statusCode = 400
        /\ inv[i].event.message.t = "str"
        /\ inv[i].event.message.s # ""
        /\ Strip(inv[i].event.message.s) = ""
        /\ ~EmptyOrMissing(inv[i].event.user_id)
        /\ Len(faq) = NumSeeds

\* C6: when the cache holds an entry that matches the user message at or
\* above the threshold, the step after the history answers from the cache:
\* the reply is that entry's answer, source is "cache", escalate is false,
\* and the handler goes on to the assistant turn without the model and
\* without a cache write.
C6_AnswerFromCache ==
    [][\A i \in Invocations :
         LET hit == quick_faq_lookup([ok |-> TRUE, items |-> faq],
                                     inv[i].user_message, config.threshold)
         IN  inv[i].pc = "lookup" /\ inv'[i].pc # "lookup" /\ ~hit.none =>
                /\ inv'[i].pc = "save_assistant"
                /\ inv'[i].reply_text = hit.answer
                /\ inv'[i].source = "cache"
                /\ inv'[i].escalate = FALSE
                /\ faq' = faq]_vars

\* The steps of a resolve on a miss, in the order the specification gives.
ResolveSteps ==
    << "user_turn", "history", "placeholder", "invoke", "classify", "answer",
       "assistant_turn", "respond" >>
StepNames(trace) == [n \in 1..Len(trace) |-> trace[n].step]
\* Whether the store call of the named step of trace succeeded.
StepOk(trace, name) == \E n \in 1..Len(trace) : trace[n].step = name /\ trace[n].ok
\* The (question, answer) pairs of the cache, in the order they were put.
Pairs(table) == [n \in 1..Len(table) |-> <<table[n].question, table[n].answer>>]
\* The last k elements of seq.
LastOf(seq, k) == SubSeq(seq, Len(seq) - k + 1, Len(seq))
\* Invocation i has returned the response of a resolve.
Resolved(i) ==
    inv[i].pc = "returned" /\ inv[i].statusCode = 200 /\ inv[i].event.httpMethod = "POST"

\* C7: the steps of a resolve are taken in the order user turn, history,
\* placeholder, invoke, classify, answer, assistant turn, response, each
\* once: what a resolve has done so far is always a beginning of that list,
\* a returned resolve has done all of it, the user turn is in the table
\* from its step on, the cache entries a resolve wrote are the placeholder
\* and then the generated answer, and the assistant turn it stored has
\* source "model".
C7_StepsInOrder ==
    \A i \in Invocations :
        LET trace == inv[i].trace
            tail  == (IF StepOk(trace, "placeholder")
                      THEN << <<inv[i].user_message, "">> >> ELSE <<>>)
                     \o (IF StepOk(trace, "answer")
                         THEN << <<inv[i].user_message, inv[i].reply_text>> >> ELSE <<>>)
        IN  /\ Len(trace) <= Len(ResolveSteps)
            /\ StepNames(trace) = SubSeq(ResolveSteps, 1, Len(trace))
            /\ Len(faq) >= Len(tail)
            /\ LastOf(Pairs(faq), Len(tail)) = tail
            /\ inv[i].pc \in {"history", "lookup", "generate", "save_answer", "save_assistant"} =>
                 \E t \in sessions :
                    /\ t.message_id = inv[i].user_msg_id
                    /\ t.role = "user"
                    /\ t.text = inv[i].user_message
            /\ Resolved(i) =>
                 /\ StepNames(trace) = ResolveSteps
                 /\ inv[i].payload.source = "model"
                 /\ \E t \in sessions :
                      /\ t.message_id = inv[i].payload.message_id
                      /\ t.session_id = inv[i].payload.session_id
                      /\ t.role = "assistant"
                      /\ t.source = "model"
                      /\ t.text = inv[i].payload.reply

\* C7's case: a resolve that returned with every store call succeeding, its
\* two cache entries behind the seeds.
C7_Witness ==
    \E i \in Invocations :
        /\ Resolved(i)
        /\ faults = 0
        /\ \A n \in 1..Len(inv[i].trace) : inv[i].trace[n].ok
        /\ Len(faq) = NumSeeds + 2
        /\ inv[i].payload.reply = "Your parcel arrives on Friday."

\* The seed set as (question, answer) pairs.
SeedPairs == [n \in 1..NumSeeds |-> <<SEED_FAQS[n].question, SEED_FAQS[n].answer>>]

\* C8: bootstrap on a non-empty cache inserts nothing, and with the store
\* answering, the cache holds every seed pair exactly once after the first
\* bootstrap and still after the second.
C8_BootstrapOnce ==
    [][/\ \A i \in Invocations :
            inv[i].pc = "seed_scan" /\ Len(faq) > 0 =>
                faq' = faq /\ inv'[i].pc \in {"seed_scan", "route"}
       /\ inv'[1].pc = "route" /\ faults' = 0 =>
            Pairs(faq') = SeedPairs]_vars

\* C8's case: both bootstraps done with the store answering, the seeds in
\* the cache.
C8_Witness ==
    /\ \A i \in Invocations : inv[i].pc = "route"
    /\ faults = 0
    /\ Len(faq) = NumSeeds

\* C9: a ClientError of the put of the user turn ends the resolve with that
\* error before any cache write, model call or response; a ClientError of
\* the put of the assistant turn ends it with that error and no response;
\* a resolve that has failed does nothing more.
C9_TurnWriteFailureRaised ==
    [][\A i \in Invocations :
         /\ inv[i].pc = "save_user" /\ faults' > faults =>
              /\ inv'[i].pc = "raised"
              /\ inv'[i].raised = "ClientError"
              /\ inv'[i].statusCode = 0
              /\ inv'[i].trace = <<>>
              /\ inv'[i].reply_text = ""
              /\ faq' = faq
              /\ sessions' = sessions
         /\ inv[i].pc = "save_assistant" /\ faults' > faults =>
              /\ inv'[i].pc = "raised"
              /\ inv'[i].raised = "ClientError"
              /\ inv'[i].statusCode = 0
              /\ sessions' = sessions
         /\ inv[i].pc = "raised" =>
              inv'[i] = inv[i] /\ faq' = faq /\ sessions' = sessions]_vars

\* C9's case: the put of the assistant turn failed after the answer was
\* generated and stored.
C9_Witness ==
    \E i \in Invocations :
        /\ inv[i].pc = "raised"
        /\ inv[i].raised = "ClientError"
        /\ StepNames(inv[i].trace) = SubSeq(ResolveSteps, 1, 6)
        /\ inv[i].statusCode = 0

\* C10: a resolve whose cache write failed does not complete as if the
\* entry had been stored: a resolve that returned a generated reply has its
\* question and that reply in the cache.
C10_CacheFailureReported ==
    \A i \in Invocations :
        Resolved(i) /\ inv[i].payload.source = "model" =>
            \E n \in 1..Len(faq) :
                /\ faq[n].question = inv[i].user_message
                /\ faq[n].answer = inv[i].payload.reply

\* One of the trigger phrases is, ignoring case, a piece of text.
NamesTrigger(text) ==
    \E n \in 1..Len(escalation_triggers) :
        \E a \in 1..Len(text) :
            LET b == a + Len(escalation_triggers[n]) - 1
            IN  b <= Len(text) /\ Lower(Slice(text, a, b)) = escalation_triggers[n]

\* NamesTrigger of every reply call_bedrock_model gives during a request.
TriggerNamed == [text \in ReplyTexts |-> NamesTrigger(text)]

\* C11: the escalate flag a resolve returns is true exactly when its reply
\* names a trigger phrase somewhere, in any case, and its source is "model".
C11_EscalateIffTrigger ==
    \A i \in Invocations :
        Resolved(i) =>
            /\ inv[i].payload.source = "model"
            /\ inv[i].payload.reply \in ReplyTexts
            /\ inv[i].payload.escalate = TriggerNamed[inv[i].payload.reply]

\* C11's case: a generated reply with "hacked" in it, returned with
\* escalate true.
C11_Witness ==
    \E i \in Invocations :
        /\ Resolved(i)
        /\ inv[i].payload.reply = "It seems your account was hacked."
        /\ inv[i].payload.escalate = TRUE
        /\ inv[i].payload.source = "model"

(***************************************************************************)
(* build_prompt_text on its own: system prompts, histories in every order  *)
(* of up to MaxPromptHistory turns, user messages.                         *)
(***************************************************************************)

MaxPromptHistory == 2

\* Turns of one session, one per second, as get_recent_history returns them.
PromptTurns ==
    { Turn("sess-1", 0, "msg-a", "u1", "user", "Where is my parcel?", "", FALSE),
      Turn("sess-1", 1, "msg-b", "u1", "assistant", "It arrives on Friday.", "model", FALSE),
      Turn("sess-1", 2, "msg-c", "u1", "user", "Can I return it?", "", FALSE) }

\* Every sequence of up to MaxPromptHistory different turns, in any order.
PromptHistories ==
    UNION {{h \in [1..len -> PromptTurns] : \A a, b \in 1..len : a # b => h[a] # h[b]} :
              len \in 0..MaxPromptHistory}

SystemPrompts == {"Be brief.", " \nYou are a support assistant.\n "}
PromptMessages == {"Thanks!", "Where is it now?", "USER:\nline two"}

InitPrompt ==
    /\ config = DefaultConfig
    /\ HandlerInit
    /\ unit \in {[op |-> "build_prompt_text", system_prompt |-> sp, history_items |-> h,
               user_message |-> m, done |-> FALSE, result |-> ""] :
                  sp \in SystemPrompts, h \in PromptHistories, m \in PromptMessages}

CallPrompt ==
    /\ unit.op = "build_prompt_text"
    /\ ~unit.done
    /\ unit' = [unit EXCEPT !.done = TRUE,
                            !.result = build_prompt_text(unit.system_prompt,
                                                         unit.history_items,
                                                         unit.user_message)]
    /\ UNCHANGED handlerVars

SpecPrompt == InitPrompt /\ [][CallPrompt]_vars

Prompted == unit.op = "build_prompt_text" /\ unit.done

\* The block of one turn: its role as label, its text, a blank line.
BlockOf(turn) ==
    (IF turn.role = "user" THEN "USER" ELSE "ASSISTANT") \o ":\n" \o turn.text \o "\n\n"

RECURSIVE BlocksOf(_)
BlocksOf(turns) == IF turns = <<>> THEN "" ELSE BlockOf(Head(turns)) \o BlocksOf(Tail(turns))

\* The turns of a history, oldest first.
OldestFirst(history_items) ==
    SortedByTs({history_items[n] : n \in 1..Len(history_items)})

\* C12: the prompt is the system block, then one block per history turn
\* oldest first whatever the order of the input, then the user message as
\* it is, then the assistant marker.
C12_PromptLayout ==
    Prompted =>
        unit.result = "SYSTEM:\n" \o Strip(unit.system_prompt) \o "\n\n"
                      \o BlocksOf(OldestFirst(unit.history_items))
                      \o "USER:\n" \o unit.user_message \o "\n\n"
                      \o "ASSISTANT:"

(***************************************************************************)
(* Properties of the conversation store                                    *)
(***************************************************************************)

\* The turns of a session that the table holds.
TurnsOf(session_id) == {x \in sessions : x.session_id = session_id}

\* C13: the history a resolve builds its prompt from holds at most
\* MAX_HISTORY_MESSAGES turns, all of the resolve's own session, oldest
\* first; when the query answered they are the most recent turns of the
\* session: as many as the limit allows, and none left out is newer than
\* one taken.
C13_RecentHistory ==
    \A i \in Invocations :
        inv[i].pc \in {"lookup", "generate"} =>
            LET h     == inv[i].history
                taken == {h[n] : n \in 1..Len(h)}
                own   == TurnsOf(inv[i].session_id)
            IN  /\ Len(h) <= config.max_history
                /\ taken \subseteq own
                /\ \A a, b \in 1..Len(h) : a < b => h[a].message_ts < h[b].message_ts
                /\ StepOk(inv[i].trace, "history") =>
                     /\ Len(h) = IF Cardinality(own) < config.max_history
                                 THEN Cardinality(own) ELSE config.max_history
                     /\ \A x \in own \ taken, y \in taken : x.message_ts < y.message_ts

\* C13's case: the second resolve of a session, which holds more turns
\* than the limit.
C13_Witness ==
    \E i \in Invocations :
        /\ inv[i].pc = "generate"
        /\ StepOk(inv[i].trace, "history")
        /\ Cardinality(TurnsOf(inv[i].session_id)) > config.max_history
        /\ Len(inv[i].history) = config.max_history

\* C14: the turn store only grows: no step changes, replaces or removes a
\* turn it holds, and a resolve that returns has its user turn and its
\* assistant turn, with source and escalate, in its session.
C14_TurnsAppendOnly ==
    [][/\ sessions \subseteq sessions'
       /\ \A i \in Invocations :
            Resolved(i)' =>
                \E u, a \in TurnsOf(inv[i].session_id)' :
                    /\ u.message_id = inv'[i].user_msg_id
                    /\ u.role = "user"
                    /\ u.text = inv'[i].user_message
                    /\ a.message_id = inv'[i].assistant_msg_id
                    /\ a.role = "assistant"
                    /\ a.source = inv'[i].source
                    /\ a.escalate = inv'[i].escalate]_vars

\* C15: a turn put into a session carries a timestamp later than that of
\* every turn the session holds, so no two turns of a session share one.
C15_TimestampsIncrease ==
    [][\A x \in sessions' \ sessions :
         \A y \in TurnsOf(x.session_id) : y.message_ts < x.message_ts]_vars

(***************************************************************************)
(* Properties of the cache under overlapping resolves                      *)
(***************************************************************************)

\* The positions of the cache holding question with an empty answer, and
\* with an answer that is no seed's.
PlaceholdersFor(table, question) ==
    {n \in 1..Len(table) : table[n].question = question /\ table[n].answer = ""}
AnswersFor(table, question) ==
    {n \in 1..Len(table) :
        /\ table[n].question = question
        /\ table[n].answer # ""
        /\ \A k \in 1..NumSeeds : table[n].answer # SEED_FAQS[k].answer}
\* The invocations asking question whose put of the named step succeeded.
PutBy(step, question) ==
    {i \in Invocations : inv[i].user_message = question /\ StepOk(inv[i].trace, step)}

\* C17: no step changes or removes an entry of the cache, the identifiers
\* are all different, and for every question the cache holds one
\* placeholder per placeholder put and one answer entry per answer put of
\* the resolves asking it: two entries for each completed miss, none lost
\* however the resolves overlap.
C17_CacheOnlyGrows ==
    [][/\ Len(faq') >= Len(faq)
       /\ \A n \in 1..Len(faq) : faq'[n] = faq[n]
       /\ \A a, b \in 1..Len(faq') : a # b => faq'[a].faq_id # faq'[b].faq_id
       /\ \A i \in Invocations :
            LET question == inv[i].user_message
            IN  inv'[i].pc \notin {"start", "seed_scan", "seeding", "route", "save_user"} =>
                  /\ Cardinality(PlaceholdersFor(faq', question))
                       = Cardinality(PutBy("placeholder", question)')
                  /\ Cardinality(AnswersFor(faq', question))
                       = Cardinality(PutBy("answer", question)')
                  /\ Resolved(i)' /\ (\A n \in 1..Len(inv'[i].trace) : inv'[i].trace[n].ok) =>
                       \E a, b \in 1..Len(faq') :
                          /\ a < b
                          /\ faq'[a].question = question /\ faq'[a].answer = ""
                          /\ faq'[b].question = question
                          /\ faq'[b].answer = inv'[i].reply_text]_vars

\* C17's case: two resolves of the same question that overlapped, both
\* placeholders in the cache before the first answer, four entries in all.
C17_Witness ==
    /\ \A i \in Invocations : Resolved(i)
    /\ faults = 0
    /\ Len(faq) = NumSeeds + 4
    /\ faq[NumSeeds + 1].answer = ""
    /\ faq[NumSeeds + 2].answer = ""
    /\ faq[NumSeeds + 3].answer # ""

(***************************************************************************)
(* Properties of lambda_handler when the model or the store fails          *)
(***************************************************************************)

\* The call of bedrock.invoke_model of invocation i failed or gave a body
\* with no text in it.
InferenceFailed(i) ==
    \/ inv[i].outcome.kind = "client_error"
    \/ /\ inv[i].outcome.kind = "ok"
       /\ ~FamilyTextPresent(Family(config.model_id), inv[i].outcome.body)
       /\ ~GenericTextPresent(inv[i].outcome.body)

\* How often the trace names a step.
TimesDone(trace, name) == Cardinality({n \in 1..Len(trace) : trace[n].step = name})

\* C18: a failed or unrecognised model call is one call and no more, and
\* its fallback string goes the way of any reply: source "model",
\* escalate by the triggers, stored as the answer to the question and as
\* the assistant turn, returned with status 200; the resolve fails only
\* where the put of a turn does.
C18_FallbackIsAReply ==
    \A i \in Invocations :
        /\ TimesDone(inv[i].trace, "invoke") <= 1
        /\ InferenceFailed(i) =>
             /\ TimesDone(inv[i].trace, "invoke") = 1
             /\ inv[i].reply_text =
                  IF inv[i].outcome.kind = "client_error" THEN BusyFallback ELSE FormatFallback
             /\ inv[i].source = "model"
             /\ inv[i].escalate = TriggerNamed[inv[i].reply_text]
             /\ inv[i].pc \in {"save_answer", "save_assistant", "respond", "returned", "raised"}
             /\ inv[i].pc = "raised" =>
                  inv[i].raised = "ClientError" /\ TimesDone(inv[i].trace, "answer") = 1
             /\ StepOk(inv[i].trace, "answer") =>
                  \E n \in 1..Len(faq) :
                     /\ faq[n].question = inv[i].user_message
                     /\ faq[n].answer = inv[i].reply_text
             /\ inv[i].pc = "returned" =>
                  /\ inv[i].statusCode = 200
                  /\ inv[i].payload.reply = inv[i].reply_text
                  /\ inv[i].payload.source = "model"
                  /\ inv[i].payload.escalate = inv[i].escalate
                  /\ \E t \in sessions :
                       /\ t.message_id = inv[i].payload.message_id
                       /\ t.role = "assistant"
                       /\ t.text = inv[i].reply_text
                       /\ t.source = "model"
                       /\ t.escalate = inv[i].escalate

\* C18's case: the model was throttled and the resolve returned the busy
\* message as its reply, every store call succeeding.
C18_Witness ==
    \E i \in Invocations :
        /\ Resolved(i)
        /\ inv[i].outcome.kind = "client_error"
        /\ inv[i].payload.reply = BusyFallback
        /\ faults = 0

\* C19: a resolve whose history query raised does not go on to call the
\* model as though the session had no history.
C19_HistoryFailureNotSuppressed ==
    \A i \in Invocations :
        (\E n \in 1..Len(inv[i].trace) :
            inv[i].trace[n].step = "history" /\ ~inv[i].trace[n].ok)
        => /\ TimesDone(inv[i].trace, "invoke") = 0
           /\ inv[i].pc # "returned"

\* C20: however the bootstraps of concurrent invocations interleave and
\* whichever store call fails, no seed question is stored twice, and when
\* a bootstrap has run and none is under way the cache does not hold a
\* part of the seed set only.
C20_SeededOnce ==
    /\ \A a, b \in 1..Len(faq) : a # b => faq[a].question # faq[b].question
    /\ (/\ \A i \in Invocations : inv[i].pc \in {"start", "route"}
        /\ \E i \in Invocations : inv[i].pc = "route")
       => Len(faq) \in {0, NumSeeds}

(***************************************************************************)
(* Properties of the prompt and of the cache across the steps of a resolve *)
(***************************************************************************)

\* How many times t occurs in s.
Occurrences(s, t) ==
    Cardinality({k \in 1..(Len(s) - Len(t) + 1) : SubSeq(s, k, k + Len(t) - 1) = t})

\* The block build_prompt_text writes for a user turn of this text.
UserBlock(text) == "USER:\n" \o text \o "\n" \o "\n"

\* C21: in the prompt a resolve has built, the current user message is there
\* exactly once, as the USER block right before the ASSISTANT: marker, and
\* the history the prompt was built from does not hold the user turn this
\* resolve has appended.
C21_CurrentMessageOnce ==
    \A i \in Invocations :
        TimesDone(inv[i].trace, "invoke") > 0
        => /\ \A n \in 1..Len(inv[i].history) :
                  inv[i].history[n].message_id # inv[i].user_msg_id
           /\ Occurrences(inv[i].prompt_text, UserBlock(inv[i].user_message)) = 1
           /\ LET tail == UserBlock(inv[i].user_message) \o "ASSISTANT:"
                  len  == Len(inv[i].prompt_text)
              IN  /\ len >= Len(tail)
                  /\ SubSeq(inv[i].prompt_text, len - Len(tail) + 1, len) = tail

\* C22: once a resolve has taken its miss step, a lookup of its question in
\* the cache as it stands finds no entry or an entry whose answer is not
\* empty.
C22_HitNeverEmpty ==
    \A i \in Invocations :
        TimesDone(inv[i].trace, "placeholder") > 0
        => LET hit == quick_faq_lookup([ok |-> TRUE, items |-> faq],
                                       inv[i].user_message, config.threshold)
           IN  hit.none \/ hit.answer # ""

====
